---- MODULE Spec2Model ----
(***************************************************************************)
(* Model of the LMS303 (LSM303D) accelerometer / magnetometer /            *)
(* thermometer driver, src/src/imu/src/LMS303.cpp.                         *)
(*                                                                         *)
(* The driver object and the device's stored registers are the state.     *)
(* Every public method is one action; the method's body is an operator on *)
(* a record `s` that holds the object's fields, the device registers, the *)
(* count of open bus handles and the list of bus transactions the call    *)
(* has issued.  The inputs of a call are its arguments, the content the   *)
(* device presents in its read-only registers and FIFO during the call    *)
(* (a scenario), and the bus transaction of the call that fails, if any.  *)
(*                                                                         *)
(* Numbers: a scale factor is held in millionths (0.000244 is 244), an     *)
(* acceleration or a magnetic field in millionths of g or gauss (count     *)
(* times scale), a temperature in eighths of a degree (25.0 is 200).       *)
(* Rounding of `float` is not modelled.  Pitch and roll are kept as the    *)
(* arguments of the atan expression that computes them.                    *)
(***************************************************************************)
EXTENDS Integers, Sequences, FiniteSets, TLC

(***************************************************************************)
(* Register map and sizes (imu/LMS303.h, LSM303D datasheet).               *)
(***************************************************************************)
REG_TEMP_OUT_L == 5
REG_TEMP_OUT_H == 6
REG_OUT_X_L_M == 8
REG_OUT_X_H_M == 9
REG_OUT_Y_L_M == 10
REG_OUT_Y_H_M == 11
REG_OUT_Z_L_M == 12
REG_OUT_Z_H_M == 13
REG_WHO_AM_I == 15
REG_INT_CTRL_M == 18
REG_CTRL0 == 31
REG_CTRL1 == 32
REG_CTRL2 == 33
REG_CTRL3 == 34
REG_CTRL4 == 35
REG_CTRL5 == 36
REG_CTRL6 == 37
REG_CTRL7 == 38
REG_STATUS_A == 39
REG_OUT_X_L_A == 40
REG_OUT_X_H_A == 41
REG_OUT_Y_L_A == 42
REG_OUT_Y_H_A == 43
REG_OUT_Z_L_A == 44
REG_OUT_Z_H_A == 45
REG_FIFO_CTRL == 46
REG_FIFO_SRC == 47
LMS303_I2C_BUFFER == 64
ACCEL_FIFO_SLOTS == 32
ACCEL_FIFO_SIZE == 6 * ACCEL_FIFO_SLOTS
WHO_AM_I_VALUE == 73

\* enum LMS303_ACCEL_SCALE, LMS303_MAG_SCALE, the two data rates the
\* constructor uses, and enum LMS303_ACCEL_FIFO_MODE
SCALE_ACCEL_2g == 0
SCALE_ACCEL_4g == 1
SCALE_ACCEL_6g == 2
SCALE_ACCEL_8g == 3
SCALE_ACCEL_16g == 4
SCALE_MAG_2gauss == 0
SCALE_MAG_4gauss == 1
SCALE_MAG_8gauss == 2
SCALE_MAG_12gauss == 3
DR_MAG_100HZ == 5
DR_ACCEL_16OOHZ == 10
ACCEL_FIFO_BYPASS == "BYPASS"
ACCEL_FIFO_STREAM == "STREAM"
ACCEL_FIFO_ERROR == "ERROR"

(***************************************************************************)
(* Bounds of the model.                                                    *)
(***************************************************************************)
\* the largest enum value passed to a scale setter (valid ones are 0..4)
MaxEnum == 5
\* method calls followed after the constructor has returned
MaxCalls == 1

(***************************************************************************)
(* Integer arithmetic of the C++ types.  A char in memory is its byte      *)
(* 0..255; its value as an int depends on whether the build's plain char   *)
(* is signed.  All bitwise results are taken in the low 16 (or 8) bits,    *)
(* which is where the code truncates them.                                 *)
(***************************************************************************)
RECURSIVE BitAnd(_, _)
BitAnd(a, b) ==
    IF a = 0 \/ b = 0 THEN 0
    ELSE (a % 2) * (b % 2) + 2 * BitAnd(a \div 2, b \div 2)

RECURSIVE BitOr(_, _)
BitOr(a, b) ==
    IF a = 0 THEN b
    ELSE IF b = 0 THEN a
    ELSE (IF a % 2 = 1 \/ b % 2 = 1 THEN 1 ELSE 0) + 2 * BitOr(a \div 2, b \div 2)

RECURSIVE BitXor(_, _)
BitXor(a, b) ==
    IF a = 0 THEN b
    ELSE IF b = 0 THEN a
    ELSE ((a + b) % 2) + 2 * BitXor(a \div 2, b \div 2)

U8(x) == x % 256
U16(x) == x % 65536
ToShort(x) == IF U16(x) >= 32768 THEN U16(x) - 65536 ELSE U16(x)
CharVal(b, cs) == IF cs /\ b >= 128 THEN b - 256 ELSE b
TruncDiv(a, n) == IF a >= 0 THEN a \div n ELSE -((-a) \div n)

\* short t = msb; t = (t << 8) | lsb;
CombinePair(msb, lsb, cs) ==
    ToShort(BitOr(U16(CharVal(msb, cs) * 256), U16(CharVal(lsb, cs))))

(***************************************************************************)
(* What the device presents during one call: the identity byte, the byte   *)
(* of every high and of every low output register, the FIFO status byte.   *)
(***************************************************************************)
Scenarios ==
    { [who |-> 73, hi |-> 0,   lo |-> 0,   src |-> 0],
      [who |-> 73, hi |-> 15,  lo |-> 255, src |-> 3],
      [who |-> 73, hi |-> 128, lo |-> 0,   src |-> 0],
      [who |-> 73, hi |-> 1,   lo |-> 128, src |-> 241],
      [who |-> 73, hi |-> 255, lo |-> 255, src |-> 15],
      [who |-> 0,  hi |-> 1,   lo |-> 2,   src |-> 1] }

HighRegs ==
    { REG_TEMP_OUT_H, REG_OUT_X_H_M, REG_OUT_Y_H_M, REG_OUT_Z_H_M,
      REG_OUT_X_H_A, REG_OUT_Y_H_A, REG_OUT_Z_H_A }
LowRegs ==
    { REG_TEMP_OUT_L, REG_OUT_X_L_M, REG_OUT_Y_L_M, REG_OUT_Z_L_M,
      REG_OUT_X_L_A, REG_OUT_Y_L_A, REG_OUT_Z_L_A }
\* registers of the device that keep what is written to them
StoredRegs == (REG_CTRL0 .. REG_CTRL7) \cup {REG_FIFO_CTRL}

ScenReg(sc, r) ==
    IF r = REG_WHO_AM_I THEN sc.who
    ELSE IF r = REG_FIFO_SRC THEN sc.src
    ELSE IF r \in HighRegs THEN sc.hi
    ELSE IF r \in LowRegs THEN sc.lo
    ELSE 0

\* byte j of the FIFO burst: slot j \div 6, low bytes differ from slot to slot
FifoByte(sc, j) ==
    IF j % 2 = 1 THEN sc.hi ELSE U8(sc.lo + 3 * (j \div 6))

DevByte(s, r) ==
    IF r \in StoredRegs THEN s.regs[r] ELSE ScenReg(s.sc, r % LMS303_I2C_BUFFER)

\* the bytes a read of `size` registers from `address` delivers
DevBurst(s, address, size) ==
    [i \in 0 .. (size - 1) |->
        IF address = REG_OUT_X_L_A THEN FifoByte(s.sc, i)
        ELSE DevByte(s, address + i)]

VARIABLES
    charSigned,     \* the build's plain char is signed
    constructed,    \* the constructor has run
    regs,           \* the device's stored registers
    handles,        \* bus handles open and not closed
    dataBuffer, accelFIFO,
    accelX, accelY, accelZ, magX, magY, magZ, celsius, pitch, roll,
    accelScale, magScale, accelFIFOMode,
    lastCall,       \* the last method called, with its argument
    ret,            \* what it returned
    log,            \* the bus transactions it issued, in order
    calls           \* methods called since the constructor returned

vars ==
    << charSigned, constructed, regs, handles, dataBuffer, accelFIFO,
       accelX, accelY, accelZ, magX, magY, magZ, celsius, pitch, roll,
       accelScale, magScale, accelFIFOMode, lastCall, ret, log, calls >>

FaultKinds == {"open", "select", "write", "read"}

\* the object and the device as one record, with the inputs of the call
Cur(at, kind, sc, junk) ==
    [ cs |-> charSigned, junk |-> junk, regs |-> regs, handles |-> handles,
      dataBuffer |-> dataBuffer, accelFIFO |-> accelFIFO,
      accelX |-> accelX, accelY |-> accelY, accelZ |-> accelZ,
      magX |-> magX, magY |-> magY, magZ |-> magZ,
      celsius |-> celsius, pitch |-> pitch, roll |-> roll,
      accelScale |-> accelScale, magScale |-> magScale,
      accelFIFOMode |-> accelFIFOMode,
      log |-> << >>, rv |-> 0, got |-> FALSE, rd |-> << >>,
      faultAt |-> at, faultKind |-> kind, sc |-> sc ]

\* the fault of the transaction the call is about to issue
FaultNow(s) == IF Len(s.log) + 1 = s.faultAt THEN s.faultKind ELSE "none"

(***************************************************************************)
(* LMS303::writeI2CDeviceByte: open, select the address, write the two     *)
(* byte frame, close.  The two returns after a successful open leave the   *)
(* handle open.                                                            *)
(***************************************************************************)
writeI2CDeviceByte(s, address, value) ==
    LET f == FaultNow(s)
        r == IF f = "open" THEN 1
             ELSE IF f = "select" THEN 2
             ELSE IF f = "write" THEN 3
             ELSE 0
        e == [ op |-> "write", reg |-> address, n |-> value, addr |-> address,
               fault |-> IF r = 0 THEN "none" ELSE f, ret |-> r,
               opened |-> (f # "open"), closed |-> (r = 0) ]
    IN  [ s EXCEPT
            !.regs = IF r = 0 /\ address \in StoredRegs
                     THEN [s.regs EXCEPT ![address] = value] ELSE s.regs,
            !.handles = IF r \in {2, 3} THEN s.handles + 1 ELSE s.handles,
            !.log = Append(s.log, e),
            !.rv = r ]

(***************************************************************************)
(* LMS303::readI2CDevice: open, select, write the address byte (bit 7 set  *)
(* for a burst), read `size` bytes, close.  A failed address write or a    *)
(* failed data read is logged and the function goes on to return 0.  A     *)
(* bus that rejects the address byte delivers no data either.  s.got tells *)
(* whether the caller's buffer was filled, s.rd is what was delivered.     *)
(***************************************************************************)
\* readI2CDevice that asks for a burst whatever the size
readI2CDevice_alwaysBurst(s, address, size) ==
    LET f == FaultNow(s)
        r == IF f = "open" THEN 1
             ELSE IF f = "select" THEN 2
             ELSE 0
        e == [ op |-> "read", reg |-> address, n |-> size,
               addr |-> IF r = 0 THEN BitOr(address, 128) ELSE -1,
               fault |-> f, ret |-> r,
               opened |-> (f # "open"), closed |-> (r = 0) ]
    IN  [ s EXCEPT
            !.handles = IF r = 2 THEN s.handles + 1 ELSE s.handles,
            !.log = Append(s.log, e),
            !.rv = r,
            !.got = (f = "none"),
            !.rd = IF f = "none" THEN DevBurst(s, address, size) ELSE << >> ]

readI2CDevice(s, address, size) ==
    LET f == FaultNow(s)
        r == IF f = "open" THEN 1
             ELSE IF f = "select" THEN 2
             ELSE 0
        temp == IF size > 1 THEN BitOr(address, 128) ELSE address
        e == [ op |-> "read", reg |-> address, n |-> size,
               addr |-> IF r = 0 THEN temp ELSE -1,
               fault |-> f, ret |-> r,
               opened |-> (f # "open"), closed |-> (r = 0) ]
    IN  [ s EXCEPT
            !.handles = IF r = 2 THEN s.handles + 1 ELSE s.handles,
            !.log = Append(s.log, e),
            !.rv = r,
            !.got = (f = "none"),
            !.rd = IF f = "none" THEN DevBurst(s, address, size) ELSE << >> ]

\* readI2CDevice(address, &dataBuffer[address], size)
readIntoDataBuffer(s, address, size) ==
    LET t == readI2CDevice(s, address, size)
    IN  IF t.got
        THEN [ t EXCEPT !.dataBuffer =
                 [ i \in 0 .. (LMS303_I2C_BUFFER - 1) |->
                     IF i >= address /\ i < address + size
                     THEN t.rd[i - address] ELSE s.dataBuffer[i] ] ]
        ELSE t

(***************************************************************************)
(* LMS303::reset                                                           *)
(***************************************************************************)
\* reset that leaves the two local buffers as they are
reset_keepsBuffers(s) ==
    LET s0 == writeI2CDeviceByte(s, REG_CTRL0, 128)
        s1 == writeI2CDeviceByte(s0, REG_CTRL1, 0)
        s2 == writeI2CDeviceByte(s1, REG_CTRL2, 0)
        s3 == writeI2CDeviceByte(s2, REG_CTRL3, 0)
        s4 == writeI2CDeviceByte(s3, REG_CTRL4, 0)
        s5 == writeI2CDeviceByte(s4, REG_CTRL5, 0)
        s6 == writeI2CDeviceByte(s5, REG_CTRL6, 0)
        s7 == writeI2CDeviceByte(s6, REG_CTRL7, 0)
        s8 == writeI2CDeviceByte(s7, REG_FIFO_CTRL, 0)
        s9 == writeI2CDeviceByte(s8, REG_FIFO_SRC, 0)
    IN  [ s9 EXCEPT !.rv = 0 ]

reset(s) ==
    LET s0 == writeI2CDeviceByte(s, REG_CTRL0, 128)
        s1 == writeI2CDeviceByte(s0, REG_CTRL1, 0)
        s2 == writeI2CDeviceByte(s1, REG_CTRL2, 0)
        s3 == writeI2CDeviceByte(s2, REG_CTRL3, 0)
        s4 == writeI2CDeviceByte(s3, REG_CTRL4, 0)
        s5 == writeI2CDeviceByte(s4, REG_CTRL5, 0)
        s6 == writeI2CDeviceByte(s5, REG_CTRL6, 0)
        s7 == writeI2CDeviceByte(s6, REG_CTRL7, 0)
        s8 == writeI2CDeviceByte(s7, REG_FIFO_CTRL, 0)
        s9 == writeI2CDeviceByte(s8, REG_FIFO_SRC, 0)
    IN  [ s9 EXCEPT
            !.dataBuffer = [i \in 0 .. (LMS303_I2C_BUFFER - 1) |-> 0],
            !.accelFIFO = [i \in 0 .. (ACCEL_FIFO_SIZE - 1) |-> 0],
            !.rv = 0 ]

(***************************************************************************)
(* Conversions.                                                            *)
(***************************************************************************)
convertMagnetism(s, msb_reg_addr, lsb_reg_addr) ==
    CombinePair(s.dataBuffer[msb_reg_addr], s.dataBuffer[lsb_reg_addr], s.cs)
        * s.magScale

convertAcceleration(s, msb_reg_addr, lsb_reg_addr) ==
    CombinePair(s.dataBuffer[msb_reg_addr], s.dataBuffer[lsb_reg_addr], s.cs)
        * s.accelScale

\* the overload convertAcceleration(int accel)
convertAccelerationInt(s, accel) == accel * s.accelScale

\* sign * temp of getTemperature, for the two temperature bytes
TempCount(msb, lsb, cs) ==
    LET temp == U16(CombinePair(msb, lsb, cs))
    IN  IF BitAnd(temp, 2048) # 0
        THEN -ToShort(BitXor(temp, 4095))
        ELSE BitAnd(temp, 4095)

\* celsius = sign * (temp / 8.0) + 25, in eighths of a degree
getTemperature(s) ==
    LET c == TempCount(s.dataBuffer[REG_TEMP_OUT_H],
                       s.dataBuffer[REG_TEMP_OUT_L], s.cs) + 200
    IN  [ s EXCEPT !.celsius = c, !.rv = c ]

\* 180 * atan(num / sqrt(a*a + b*b)) / M_PI, kept as its arguments
Angle(num, a, b) == [ num |-> num, a |-> a, b |-> b ]
ZeroAngle == Angle(0, 0, 1)

calculatePitchAndRoll(s) ==
    [ s EXCEPT !.pitch = Angle(s.accelX, s.accelY, s.accelZ),
               !.roll = Angle(s.accelY, s.accelX, s.accelZ) ]

(***************************************************************************)
(* FIFO draining and averaging.                                            *)
(***************************************************************************)
\* readAccelFIFO that returns the status field without the + 1
readAccelFIFO_rawCount(s) ==
    LET t == readI2CDevice(s, REG_FIFO_SRC, 1)
        val == BitAnd(IF t.got THEN t.rd[0] ELSE 0, 15)
        u == readI2CDevice(t, REG_OUT_X_L_A, ACCEL_FIFO_SIZE)
    IN  [ u EXCEPT !.accelFIFO = IF u.got THEN u.rd ELSE s.accelFIFO,
                   !.rv = val ]

readAccelFIFO(s) ==
    LET t == readI2CDevice(s, REG_FIFO_SRC, 1)
        val == BitAnd(IF t.got THEN t.rd[0] ELSE 0, 15)
        u == readI2CDevice(t, REG_OUT_X_L_A, ACCEL_FIFO_SIZE)
    IN  [ u EXCEPT !.accelFIFO = IF u.got THEN u.rd ELSE s.accelFIFO,
                   !.rv = val + 1 ]

\* tempX = ~tempX + 1 of slot i, for the axis whose low byte is at offset k
NegatedSample(fifo, cs, i, k) ==
    ToShort(-CombinePair(fifo[(i * 6) + k + 1], fifo[(i * 6) + k], cs))

\* the loop's sum over slots 0 .. n-1
RECURSIVE SumAxis(_, _, _, _)
SumAxis(fifo, cs, k, n) ==
    IF n = 0 THEN 0
    ELSE SumAxis(fifo, cs, k, n - 1) + NegatedSample(fifo, cs, n - 1, k)

\* averageAccelFIFO with the slot guard turned into a zeroed result
averageAccelFIFO_zeroed(s, slots) ==
    IF slots <= 0
    THEN [ s EXCEPT !.accelX = 0, !.accelY = 0, !.accelZ = 0, !.rv = 1 ]
    ELSE [ s EXCEPT
             !.accelX = convertAccelerationInt(s,
                            TruncDiv(SumAxis(s.accelFIFO, s.cs, 0, slots), slots)),
             !.accelY = convertAccelerationInt(s,
                            TruncDiv(SumAxis(s.accelFIFO, s.cs, 2, slots), slots)),
             !.accelZ = convertAccelerationInt(s,
                            TruncDiv(SumAxis(s.accelFIFO, s.cs, 4, slots), slots)),
             !.rv = 0 ]

averageAccelFIFO(s, slots) ==
    IF slots <= 0 THEN [ s EXCEPT !.rv = 1 ]
    ELSE [ s EXCEPT
             !.accelX = convertAccelerationInt(s,
                            TruncDiv(SumAxis(s.accelFIFO, s.cs, 0, slots), slots)),
             !.accelY = convertAccelerationInt(s,
                            TruncDiv(SumAxis(s.accelFIFO, s.cs, 2, slots), slots)),
             !.accelZ = convertAccelerationInt(s,
                            TruncDiv(SumAxis(s.accelFIFO, s.cs, 4, slots), slots)),
             !.rv = 0 ]

(***************************************************************************)
(* LMS303::readFullSensorState                                             *)
(***************************************************************************)
\* the Stream branch with the FIFO drained before the register blocks
PollStream_fifoFirst(s) ==
    LET e == readAccelFIFO(s)
        a == readIntoDataBuffer(e, REG_TEMP_OUT_L,
                                (REG_OUT_Z_H_M - REG_TEMP_OUT_L) + 1)
        b == readIntoDataBuffer(a, REG_WHO_AM_I, 1)
        c == readIntoDataBuffer(b, REG_INT_CTRL_M,
                                (REG_STATUS_A - REG_INT_CTRL_M) + 1)
        d == readIntoDataBuffer(c, REG_FIFO_CTRL,
                                LMS303_I2C_BUFFER - REG_FIFO_CTRL)
    IN  averageAccelFIFO(d, e.rv)

\* the reads and the acceleration of the Stream branch
PollStream(s) ==
    LET a == readIntoDataBuffer(s, REG_TEMP_OUT_L,
                                (REG_OUT_Z_H_M - REG_TEMP_OUT_L) + 1)
        b == readIntoDataBuffer(a, REG_WHO_AM_I, 1)
        c == readIntoDataBuffer(b, REG_INT_CTRL_M,
                                (REG_STATUS_A - REG_INT_CTRL_M) + 1)
        d == readIntoDataBuffer(c, REG_FIFO_CTRL,
                                LMS303_I2C_BUFFER - REG_FIFO_CTRL)
        e == readAccelFIFO(d)
    IN  averageAccelFIFO(e, e.rv)

\* the read and the acceleration of the other branch
PollBypass(s) ==
    LET a == readIntoDataBuffer(s, REG_WHO_AM_I,
                                LMS303_I2C_BUFFER - REG_WHO_AM_I)
    IN  [ a EXCEPT
            !.accelX = convertAcceleration(a, REG_OUT_X_H_A, REG_OUT_X_L_A),
            !.accelY = convertAcceleration(a, REG_OUT_Y_H_A, REG_OUT_Y_L_A),
            !.accelZ = convertAcceleration(a, REG_OUT_Z_H_A, REG_OUT_Z_L_A) ]

\* what follows the identity check when it passes
PollConvert(s) ==
    LET t == getTemperature(s)
        m == [ t EXCEPT
                 !.magX = convertMagnetism(t, REG_OUT_X_H_M, REG_OUT_X_L_M),
                 !.magY = convertMagnetism(t, REG_OUT_Y_H_M, REG_OUT_Y_L_M),
                 !.magZ = convertMagnetism(t, REG_OUT_Z_H_M, REG_OUT_Z_L_M) ]
    IN  [ calculatePitchAndRoll(m) EXCEPT !.rv = 0 ]

readFullSensorState(s) ==
    LET r == IF s.accelFIFOMode = ACCEL_FIFO_STREAM
             THEN PollStream(s) ELSE PollBypass(s)
    IN  IF r.dataBuffer[REG_WHO_AM_I] # WHO_AM_I_VALUE
        THEN [ r EXCEPT !.rv = 1 ]
        ELSE PollConvert(r)

(***************************************************************************)
(* Configuration.                                                          *)
(***************************************************************************)
\* char buf[1] = {0x00}; readI2CDevice(reg, buf, 1);  buf[0] afterwards
ReadByteOr(t, init) == IF t.got THEN t.rd[0] ELSE init

\* enableTempSensor that writes the enable bit alone
enableTempSensor_overwrites(s) ==
    LET t == readI2CDevice(s, REG_CTRL5, 1)
        u == writeI2CDeviceByte(t, REG_CTRL5, 128)
    IN  [ u EXCEPT !.rv = IF u.rv # 0 THEN 1 ELSE 0 ]

enableTempSensor(s) ==
    LET t == readI2CDevice(s, REG_CTRL5, 1)
        buf == BitOr(ReadByteOr(t, 0), 128)
        u == writeI2CDeviceByte(t, REG_CTRL5, buf)
    IN  [ u EXCEPT !.rv = IF u.rv # 0 THEN 1 ELSE 0 ]

MagScaleFactor(scale) ==
    CASE scale = SCALE_MAG_2gauss -> 80
      [] scale = SCALE_MAG_4gauss -> 160
      [] scale = SCALE_MAG_8gauss -> 320
      [] scale = SCALE_MAG_12gauss -> 479
      [] OTHER -> 0

setMagScale(s, scale) ==
    LET buf == BitAnd(U8(U8(scale) * 32), 96)
        t == writeI2CDeviceByte(s, REG_CTRL6, buf)
    IN  IF t.rv # 0 THEN [ t EXCEPT !.magScale = 0, !.rv = 1 ]
        ELSE [ t EXCEPT !.magScale = MagScaleFactor(scale),
                        !.rv = IF MagScaleFactor(scale) = 0 THEN 1 ELSE 0 ]

setMagDataRate(s, dataRate) ==
    LET t == readI2CDevice(s, REG_CTRL5, 1)
        buf == BitOr(BitOr(BitAnd(ReadByteOr(t, 0), 131), 96),
                     U8(U8(dataRate) * 4))
        u == writeI2CDeviceByte(t, REG_CTRL5, buf)
    IN  [ u EXCEPT !.rv = IF u.rv # 0 THEN 1 ELSE 0 ]

enableMagnetometer(s) ==
    LET a == setMagDataRate(s, DR_MAG_100HZ)
        b == setMagScale(a, SCALE_MAG_8gauss)
        t == readI2CDevice(b, REG_CTRL7, 1)
        buf == BitAnd(ReadByteOr(t, 0), 248)
        u == writeI2CDeviceByte(t, REG_CTRL7, buf)
    IN  [ u EXCEPT !.rv = IF u.rv # 0 THEN 1 ELSE 0 ]

AccelScaleFactor(scale) ==
    CASE scale = SCALE_ACCEL_2g -> 61
      [] scale = SCALE_ACCEL_4g -> 122
      [] scale = SCALE_ACCEL_6g -> 183
      [] scale = SCALE_ACCEL_8g -> 244
      [] scale = SCALE_ACCEL_16g -> 732
      [] OTHER -> 0

\* setAccelScale that keeps the cached factor when the write fails
setAccelScale_keeps(s, scale) ==
    LET t == readI2CDevice(s, REG_CTRL2, 1)
        buf == BitOr(BitAnd(ReadByteOr(t, s.junk), 199), U8(U8(scale) * 8))
        u == writeI2CDeviceByte(t, REG_CTRL2, buf)
    IN  IF u.rv # 0 THEN [ u EXCEPT !.rv = 1 ]
        ELSE [ u EXCEPT !.accelScale = AccelScaleFactor(scale),
                        !.rv = IF AccelScaleFactor(scale) = 0 THEN 1 ELSE 0 ]

\* char buf[1] is not initialised: s.junk is what it holds when the read fails
setAccelScale(s, scale) ==
    LET t == readI2CDevice(s, REG_CTRL2, 1)
        buf == BitOr(BitAnd(ReadByteOr(t, s.junk), 199), U8(U8(scale) * 8))
        u == writeI2CDeviceByte(t, REG_CTRL2, buf)
    IN  IF u.rv # 0 THEN [ u EXCEPT !.accelScale = 0, !.rv = 1 ]
        ELSE [ u EXCEPT !.accelScale = AccelScaleFactor(scale),
                        !.rv = IF AccelScaleFactor(scale) = 0 THEN 1 ELSE 0 ]

\* setAccelDataRate that writes the rate field alone
setAccelDataRate_clobbers(s, dataRate) ==
    LET t == readI2CDevice(s, REG_CTRL1, 1)
        u == writeI2CDeviceByte(t, REG_CTRL1, U8(U8(dataRate) * 16))
    IN  [ u EXCEPT !.rv = IF u.rv # 0 THEN 1 ELSE 0 ]

setAccelDataRate(s, dataRate) ==
    LET t == readI2CDevice(s, REG_CTRL1, 1)
        buf == BitOr(BitAnd(ReadByteOr(t, s.junk), 15), U8(U8(dataRate) * 16))
        u == writeI2CDeviceByte(t, REG_CTRL1, buf)
    IN  [ u EXCEPT !.rv = IF u.rv # 0 THEN 1 ELSE 0 ]

getAccelFIFOMode(s) ==
    LET t == readI2CDevice(s, REG_FIFO_CTRL, 1)
        val == ReadByteOr(t, 0)
    IN  [ t EXCEPT !.rv = IF val = 0 THEN ACCEL_FIFO_BYPASS
                          ELSE IF val = 64 THEN ACCEL_FIFO_STREAM
                          ELSE ACCEL_FIFO_ERROR ]

\* the value written to CTRL0 in the Stream case: val[0] = 0x40; val[0] | 0x40
StreamCtrl0(read) == BitOr(64, 64)

setAccelFIFOMode(s, mode) ==
    LET t == readI2CDevice(s, REG_CTRL0, 1)
        val == IF mode = ACCEL_FIFO_STREAM THEN 64 ELSE 0
        u == IF mode = ACCEL_FIFO_STREAM
             THEN writeI2CDeviceByte(t, REG_CTRL0, StreamCtrl0(ReadByteOr(t, 0)))
             ELSE t
        w == writeI2CDeviceByte(u, REG_FIFO_CTRL, val)
        g == getAccelFIFOMode(w)
    IN  [ g EXCEPT !.accelFIFOMode = IF g.rv # mode THEN s.accelFIFOMode ELSE mode,
                   !.rv = 0 ]

enableAccelerometer(s) ==
    LET a == setAccelDataRate(s, DR_ACCEL_16OOHZ)
        b == setAccelScale(a, SCALE_ACCEL_8g)
        c == setAccelFIFOMode(b, ACCEL_FIFO_STREAM)
        t == readI2CDevice(c, REG_CTRL1, 1)
        buf == BitOr(ReadByteOr(t, 0), 7)
        u == writeI2CDeviceByte(t, REG_CTRL1, buf)
    IN  [ u EXCEPT !.rv = IF u.rv # 0 THEN 1 ELSE 0 ]

(***************************************************************************)
(* LMS303::LMS303                                                          *)
(***************************************************************************)
\* a constructor that gives up once a setup step has reported a failure
LMS303_stopsOnFailure(s) ==
    LET z == [ s EXCEPT !.accelX = 0, !.accelY = 0, !.accelZ = 0,
                        !.pitch = ZeroAngle, !.roll = ZeroAngle ]
        a == reset(z)
        b == enableMagnetometer(a)
        c == enableAccelerometer(b)
        d == enableTempSensor(c)
    IN  IF b.rv # 0 THEN b
        ELSE IF c.rv # 0 THEN c
        ELSE IF d.rv # 0 THEN d
        ELSE readFullSensorState(d)

LMS303(s) ==
    LET z == [ s EXCEPT !.accelX = 0, !.accelY = 0, !.accelZ = 0,
                        !.pitch = ZeroAngle, !.roll = ZeroAngle ]
        a == reset(z)
        b == enableMagnetometer(a)
        c == enableAccelerometer(b)
        d == enableTempSensor(c)
    IN  readFullSensorState(d)

\* the state after a call: the fields of s, the call and its result
Commit(s, call) ==
    /\ regs' = s.regs
    /\ handles' = s.handles
    /\ dataBuffer' = s.dataBuffer
    /\ accelFIFO' = s.accelFIFO
    /\ accelX' = s.accelX
    /\ accelY' = s.accelY
    /\ accelZ' = s.accelZ
    /\ magX' = s.magX
    /\ magY' = s.magY
    /\ magZ' = s.magZ
    /\ celsius' = s.celsius
    /\ pitch' = s.pitch
    /\ roll' = s.roll
    /\ accelScale' = s.accelScale
    /\ magScale' = s.magScale
    /\ accelFIFOMode' = s.accelFIFOMode
    /\ lastCall' = call
    /\ ret' = s.rv
    /\ log' = s.log
    /\ UNCHANGED charSigned

(***************************************************************************)
(* Inputs of a call.                                                       *)
(***************************************************************************)
NoFault == [ at |-> 0, kind |-> "open" ]
\* no transaction fails, or the at-th of the call fails at step `kind`
FaultPlans(n) ==
    {NoFault} \cup [ at : 1 .. n, kind : FaultKinds ]
\* the content the device presents while a transaction fails
NominalScenario == [who |-> 73, hi |-> 15, lo |-> 255, src |-> 3]
\* what an uninitialised char or enum may hold
JunkBytes == {0, 255}
JunkModes == {ACCEL_FIFO_BYPASS, ACCEL_FIFO_STREAM, "JUNK"}
FifoModeArgs == {ACCEL_FIFO_BYPASS, ACCEL_FIFO_STREAM, ACCEL_FIFO_ERROR}
SlotArgs == {-1, 0, 1, 2, 4, 16, ACCEL_FIFO_SLOTS}
\* the valid values of the two data-rate enums: power-down up to the
\* fastest rate
MagRates == 0 .. DR_MAG_100HZ
AccelRates == 0 .. DR_ACCEL_16OOHZ
\* every content of the FIFO status register
StatusBytes == 0 .. 255
\* every register address of the map, and the sizes of a read: nothing, one
\* register, a pair, one FIFO slot, the whole FIFO
ReadAddresses == 0 .. (LMS303_I2C_BUFFER - 1)
ReadSizes == {0, 1, 2, 6, ACCEL_FIFO_SIZE}

\* a plan the bounds admit in the current state
Admits(plan, sc) == plan.at # 0 => sc = NominalScenario

Method(call, s) ==
    /\ constructed
    /\ calls < MaxCalls
    /\ calls' = calls + 1
    /\ UNCHANGED constructed
    /\ Commit(s, call)

Init ==
    /\ charSigned \in BOOLEAN
    /\ constructed = FALSE
    /\ regs = [r \in StoredRegs |-> 0]
    /\ handles = 0
    /\ dataBuffer = [i \in 0 .. (LMS303_I2C_BUFFER - 1) |-> 0]
    /\ accelFIFO = [i \in 0 .. (ACCEL_FIFO_SIZE - 1) |-> 0]
    /\ accelX = 0 /\ accelY = 0 /\ accelZ = 0
    /\ magX = 0 /\ magY = 0 /\ magZ = 0
    /\ celsius = 0
    /\ pitch = ZeroAngle /\ roll = ZeroAngle
    /\ accelScale = 0 /\ magScale = 0
    /\ accelFIFOMode \in JunkModes
    /\ lastCall = [op |-> "none", arg |-> 0]
    /\ ret = 0
    /\ log = << >>
    /\ calls = 0

\* new LMS303(bus, address); ret is the result of the constructor's poll
ConstructWith(plans) ==
    \E plan \in plans, sc \in Scenarios, junk \in JunkBytes :
        /\ ~constructed
        /\ Admits(plan, sc)
        /\ plan.at = 0 => junk = 0
        /\ constructed' = TRUE
        /\ UNCHANGED calls
        /\ Commit(LMS303(Cur(plan.at, plan.kind, sc, junk)),
                  [op |-> "LMS303", arg |-> 0])

\* construction over a bus on which no transaction fails
Construct == ConstructWith({NoFault})

\* construction during which any one of its transactions may fail
ConstructFaulty == ConstructWith(FaultPlans(33))

\* the content of a control register before the call under study: a bit
\* pattern put there by whoever used the device after the constructor
PresetBytes == {1, 127, 129, 255}
DevicePreset ==
    \E r \in {REG_CTRL0, REG_CTRL1, REG_CTRL2, REG_CTRL5, REG_CTRL7},
       v \in PresetBytes :
        /\ constructed
        /\ lastCall.op = "LMS303"
        /\ regs' = [regs EXCEPT ![r] = v]
        /\ lastCall' = [op |-> "preset", arg |-> r]
        /\ UNCHANGED << charSigned, constructed, handles, dataBuffer, accelFIFO,
                        accelX, accelY, accelZ, magX, magY, magZ, celsius,
                        pitch, roll, accelScale, magScale, accelFIFOMode,
                        ret, log, calls >>

CallReset ==
    \E plan \in FaultPlans(10) :
        /\ Admits(plan, NominalScenario)
        /\ Method([op |-> "reset", arg |-> 0],
                  reset(Cur(plan.at, plan.kind, NominalScenario, 0)))

CallReadFullSensorState ==
    \E plan \in FaultPlans(6), sc \in Scenarios :
        /\ Admits(plan, sc)
        /\ Method([op |-> "readFullSensorState", arg |-> 0],
                  readFullSensorState(Cur(plan.at, plan.kind, sc, 0)))

CallGetTemperature ==
    Method([op |-> "getTemperature", arg |-> 0],
           getTemperature(Cur(0, "open", NominalScenario, 0)))

CallAverageAccelFIFO ==
    \E slots \in SlotArgs :
        Method([op |-> "averageAccelFIFO", arg |-> slots],
               averageAccelFIFO(Cur(0, "open", NominalScenario, 0), slots))

CallSetAccelFIFOMode ==
    \E plan \in FaultPlans(4), mode \in FifoModeArgs :
        /\ Admits(plan, NominalScenario)
        /\ Method([op |-> "setAccelFIFOMode", arg |-> mode],
                  setAccelFIFOMode(Cur(plan.at, plan.kind, NominalScenario, 0), mode))

CallEnableTempSensor ==
    \E plan \in FaultPlans(2) :
        /\ Admits(plan, NominalScenario)
        /\ Method([op |-> "enableTempSensor", arg |-> 0],
                  enableTempSensor(Cur(plan.at, plan.kind, NominalScenario, 0)))

CallEnableMagnetometer ==
    \E plan \in FaultPlans(5) :
        /\ Admits(plan, NominalScenario)
        /\ Method([op |-> "enableMagnetometer", arg |-> 0],
                  enableMagnetometer(Cur(plan.at, plan.kind, NominalScenario, 0)))

CallSetMagScale ==
    \E plan \in FaultPlans(1), scale \in 0 .. MaxEnum :
        /\ Admits(plan, NominalScenario)
        /\ Method([op |-> "setMagScale", arg |-> scale],
                  setMagScale(Cur(plan.at, plan.kind, NominalScenario, 0), scale))

CallSetMagDataRate ==
    \E plan \in FaultPlans(2), dataRate \in MagRates :
        /\ Admits(plan, NominalScenario)
        /\ Method([op |-> "setMagDataRate", arg |-> dataRate],
                  setMagDataRate(Cur(plan.at, plan.kind, NominalScenario, 0), dataRate))

CallEnableAccelerometer ==
    \E plan \in FaultPlans(10), junk \in JunkBytes :
        /\ Admits(plan, NominalScenario)
        /\ plan.at = 0 => junk = 0
        /\ Method([op |-> "enableAccelerometer", arg |-> 0],
                  enableAccelerometer(Cur(plan.at, plan.kind, NominalScenario, junk)))

CallSetAccelScale ==
    \E plan \in FaultPlans(2), scale \in 0 .. MaxEnum, junk \in JunkBytes :
        /\ Admits(plan, NominalScenario)
        /\ plan.at = 0 => junk = 0
        /\ Method([op |-> "setAccelScale", arg |-> scale],
                  setAccelScale(Cur(plan.at, plan.kind, NominalScenario, junk), scale))

CallSetAccelDataRate ==
    \E plan \in FaultPlans(2), dataRate \in AccelRates, junk \in JunkBytes :
        /\ Admits(plan, NominalScenario)
        /\ plan.at = 0 => junk = 0
        /\ Method([op |-> "setAccelDataRate", arg |-> dataRate],
                  setAccelDataRate(Cur(plan.at, plan.kind, NominalScenario, junk), dataRate))

\* a register transaction on its own; arg is the register
CallWriteI2CDeviceByte ==
    \E plan \in FaultPlans(1), address \in {REG_CTRL0, REG_CTRL5}, value \in {1, 129, 255} :
        /\ Admits(plan, NominalScenario)
        /\ Method([op |-> "writeI2CDeviceByte", arg |-> address],
                  writeI2CDeviceByte(Cur(plan.at, plan.kind, NominalScenario, 0),
                                     address, value))

CallReadI2CDevice ==
    \E plan \in FaultPlans(1), address \in {REG_WHO_AM_I, REG_CTRL5}, size \in {1, 2} :
        /\ Admits(plan, NominalScenario)
        /\ Method([op |-> "readI2CDevice", arg |-> address],
                  readI2CDevice(Cur(plan.at, plan.kind, NominalScenario, 0),
                                address, size))

\* a read of any register of the map, of any of the sizes; arg is the register
CallReadI2CDeviceAt ==
    \E plan \in FaultPlans(1), address \in ReadAddresses, size \in ReadSizes :
        /\ plan.at # 0 => address = REG_WHO_AM_I
        /\ Method([op |-> "readI2CDevice", arg |-> address],
                  readI2CDevice(Cur(plan.at, plan.kind, NominalScenario, 0),
                                address, size))

\* readAccelFIFO on its own; arg is the content of the FIFO status register
CallReadAccelFIFO ==
    \E plan \in FaultPlans(2), status \in StatusBytes :
        /\ plan.at # 0 => status = NominalScenario.src
        /\ Method([op |-> "readAccelFIFO", arg |-> status],
                  readAccelFIFO(Cur(plan.at, plan.kind,
                                    [NominalScenario EXCEPT !.src = status], 0)))

\* the read pipeline, after a construction in which a transaction may fail
Next ==
    \/ ConstructFaulty
    \/ CallReset
    \/ CallReadFullSensorState
    \/ CallGetTemperature
    \/ CallAverageAccelFIFO
    \/ CallSetAccelFIFOMode
    \/ CallWriteI2CDeviceByte
    \/ CallReadI2CDevice

Spec == Init /\ [][Next]_vars

\* polling and averaging
NextAvg ==
    \/ Construct
    \/ CallReadFullSensorState
    \/ CallAverageAccelFIFO

SpecAvg == Init /\ [][NextAvg]_vars

\* the scale setters
NextScale ==
    \/ Construct
    \/ CallSetMagScale
    \/ CallSetAccelScale

SpecScale == Init /\ [][NextScale]_vars

\* the configuration setters, over registers that hold a pattern
NextCfg ==
    \/ Construct
    \/ DevicePreset
    \/ CallEnableTempSensor
    \/ CallEnableMagnetometer
    \/ CallSetMagScale
    \/ CallSetMagDataRate
    \/ CallEnableAccelerometer
    \/ CallSetAccelScale
    \/ CallSetAccelDataRate
    \/ CallSetAccelFIFOMode

SpecCfg == Init /\ [][NextCfg]_vars

\* startup and reset, any one transaction of which may fail
NextBoot ==
    \/ ConstructFaulty
    \/ CallReset

SpecBoot == Init /\ [][NextBoot]_vars

\* single register transactions
NextBus ==
    \/ Construct
    \/ CallReadI2CDeviceAt
    \/ CallWriteI2CDeviceByte

SpecBus == Init /\ [][NextBus]_vars

\* draining the FIFO, alone and within a poll
NextFifo ==
    \/ Construct
    \/ CallReadAccelFIFO
    \/ CallReadFullSensorState

SpecFifo == Init /\ [][NextFifo]_vars

\* the calls that write FIFO_CTRL or read the cached FIFO mode
NextMode ==
    \/ Construct
    \/ CallReset
    \/ CallSetAccelFIFOMode
    \/ CallReadFullSensorState

SpecMode == Init /\ [][NextMode]_vars

(***************************************************************************)
(* Properties.                                                             *)
(***************************************************************************)
Reading == << accelX, accelY, accelZ, magX, magY, magZ, celsius, pitch, roll >>

\* the 16-bit and the 12-bit two's-complement value of an unsigned number
Signed16(x) == IF x % 65536 >= 32768 THEN (x % 65536) - 65536 ELSE x % 65536
Signed12(x) == IF x % 4096 >= 2048 THEN (x % 4096) - 4096 ELSE x % 4096

\* C1: a poll that finds an identity byte other than 0x49 in dataBuffer
\* returns the sync error and leaves every field of the physical reading
\* (acceleration, magnetism, temperature, pitch, roll) as it was before.
C1_SyncErrorKeepsReading ==
    [][ ( /\ lastCall'.op = "readFullSensorState"
          /\ dataBuffer'[REG_WHO_AM_I] # WHO_AM_I_VALUE )
        => (ret' = 1 /\ Reading' = Reading) ]_vars

\* C2: a poll in which a transport step of one of its register reads failed
\* does not return success.
C2_FailedPollSignals ==
    ( /\ lastCall.op = "readFullSensorState"
      /\ \E i \in DOMAIN log : log[i].fault # "none" )
    => ret # 0

\* C3: every register transaction has closed the handle it opened by the
\* time it returns, on every exit path.
C3_HandleClosedOnEveryPath ==
    \A i \in DOMAIN log : log[i].opened => log[i].closed

\* C4: readI2CDevice returns a failure result whenever its open, address
\* select, address-byte write or data read failed.
C4_ReadReportsFailure ==
    \A i \in DOMAIN log :
        (log[i].op = "read" /\ log[i].fault # "none") => log[i].ret # 0

\* C5: the temperature is 25 + c/8 where c is the 12-bit two's-complement
\* value of the low 12 bits of (TEMP_OUT_H << 8 | TEMP_OUT_L); bits 12..15
\* play no part.
C5_TemperatureTwosComplement ==
    lastCall.op = "getTemperature"
    => celsius = 200 + Signed12(dataBuffer[REG_TEMP_OUT_H] * 256
                                + dataBuffer[REG_TEMP_OUT_L])

\* minus the sum over the first n slots of the signed 16-bit sample whose
\* low byte is at offset k of the slot
RECURSIVE NegSum(_, _, _)
NegSum(fifo, k, n) ==
    IF n = 0 THEN 0
    ELSE NegSum(fifo, k, n - 1)
         - Signed16(fifo[(n - 1) * 6 + k + 1] * 256 + fifo[(n - 1) * 6 + k])

\* C6: averageAccelFIFO(n), n >= 1, sets each axis to accelScale times the
\* quotient, truncated toward zero, by n of minus the sum of the first n
\* signed 16-bit samples of that axis.
C6_AverageOfNegatedSum ==
    (lastCall.op = "averageAccelFIFO" /\ lastCall.arg >= 1)
    => /\ accelX = accelScale * TruncDiv(NegSum(accelFIFO, 0, lastCall.arg), lastCall.arg)
       /\ accelY = accelScale * TruncDiv(NegSum(accelFIFO, 2, lastCall.arg), lastCall.arg)
       /\ accelZ = accelScale * TruncDiv(NegSum(accelFIFO, 4, lastCall.arg), lastCall.arg)

\* C7: averageAccelFIFO called with slots <= 0 returns the error result and
\* leaves accelX, accelY and accelZ as they were.
C7_ZeroSlotsIsAnError ==
    [][ (lastCall'.op = "averageAccelFIFO" /\ lastCall'.arg <= 0)
        => ( /\ ret' = 1
             /\ accelX' = accelX /\ accelY' = accelY /\ accelZ' = accelZ ) ]_vars

\* C7 witness: averageAccelFIFO(0) has returned the error on an object
\* whose acceleration is not zero.
C7_Witness ==
    /\ lastCall.op = "averageAccelFIFO" /\ lastCall.arg = 0
    /\ ret = 1
    /\ accelX # 0

\* the write of a scale setter and the documented factors, in millionths
ScaleWrite == log[Len(log)]
DocumentedMag == << 80, 160, 320, 479 >>
DocumentedAccel == << 61, 122, 183, 244, 732 >>

\* C8: a scale setter whose register write succeeds sets the documented
\* factor of a valid enum value and returns success; for any other value,
\* and whenever the write fails, the factor becomes 0 and it returns an error.
C8_ScaleSetters ==
    /\ lastCall.op = "setMagScale"
       => IF ScaleWrite.ret = 0 /\ lastCall.arg \in 0 .. 3
          THEN magScale = DocumentedMag[lastCall.arg + 1] /\ ret = 0
          ELSE magScale = 0 /\ ret # 0
    /\ lastCall.op = "setAccelScale"
       => IF ScaleWrite.ret = 0 /\ lastCall.arg \in 0 .. 4
          THEN accelScale = DocumentedAccel[lastCall.arg + 1] /\ ret = 0
          ELSE accelScale = 0 /\ ret # 0

\* C8 witness: setAccelScale(16 g) has lost its register write and has
\* replaced the factor the constructor had set by 0.
C8_Witness ==
    /\ lastCall.op = "setAccelScale" /\ lastCall.arg = SCALE_ACCEL_16g
    /\ ScaleWrite.op = "write" /\ ScaleWrite.ret = 3
    /\ accelScale = 0 /\ ret = 1

\* C9: enableTempSensor writes CTRL5 and nothing else, and the value it
\* writes is the previous content of CTRL5 with bit 7 set.
C9_TempEnableKeepsOtherBits ==
    [][ lastCall'.op = "enableTempSensor"
        => \A i \in DOMAIN log' :
               log'[i].op = "write"
               => ( /\ log'[i].reg = REG_CTRL5
                    /\ log'[i].n = BitOr(regs[REG_CTRL5], 128) ) ]_vars

\* C10: when setAccelFIFOMode enables Stream mode, the value it writes to
\* CTRL0 is the value it just read from CTRL0 with bit 0x40 set.
C10_FifoEnableKeepsOtherBits ==
    [][ ( /\ lastCall'.op = "setAccelFIFOMode"
          /\ lastCall'.arg = ACCEL_FIFO_STREAM
          /\ log'[1].fault = "none" )
        => \A i \in DOMAIN log' :
               (log'[i].op = "write" /\ log'[i].reg = REG_CTRL0)
               => log'[i].n = BitOr(regs[REG_CTRL0], 64) ]_vars

\* the registers a logged read covers
Covered(e) == e.reg .. (e.reg + e.n - 1)

\* the reads of a Stream-mode poll, in order, as (register, size)
StreamReads ==
    << << REG_TEMP_OUT_L, (REG_OUT_Z_H_M - REG_TEMP_OUT_L) + 1 >>,
       << REG_WHO_AM_I, 1 >>,
       << REG_INT_CTRL_M, (REG_STATUS_A - REG_INT_CTRL_M) + 1 >>,
       << REG_FIFO_CTRL, LMS303_I2C_BUFFER - REG_FIFO_CTRL >>,
       << REG_FIFO_SRC, 1 >>,
       << REG_OUT_X_L_A, ACCEL_FIFO_SIZE >> >>

\* C11: a poll in Stream mode issues exactly six reads, in this order: the
\* block TEMP_OUT_L..OUT_Z_H_M, WHO_AM_I alone, the block
\* INT_CTRL_M..STATUS_A, the block FIFO_CTRL..end of map, the FIFO status
\* register, the FIFO burst from OUT_X_L_A; the first four cover no
\* accelerometer output register and no register below TEMP_OUT_L; and the
\* acceleration it leaves is an average over the FIFO buffer as it is after
\* the burst.
C11_StreamPollReadOrder ==
    (lastCall.op = "readFullSensorState" /\ accelFIFOMode = ACCEL_FIFO_STREAM)
    => /\ Len(log) = Len(StreamReads)
       /\ \A i \in DOMAIN log :
              /\ log[i].op = "read"
              /\ << log[i].reg, log[i].n >> = StreamReads[i]
       /\ \A i \in 1 .. 4 :
              /\ Covered(log[i]) \cap (REG_OUT_X_L_A .. REG_OUT_Z_H_A) = {}
              /\ \A r \in Covered(log[i]) : r >= REG_TEMP_OUT_L
       /\ \E n \in 1 .. ACCEL_FIFO_SLOTS :
              /\ accelX = accelScale * TruncDiv(SumAxis(accelFIFO, charSigned, 0, n), n)
              /\ accelY = accelScale * TruncDiv(SumAxis(accelFIFO, charSigned, 2, n), n)
              /\ accelZ = accelScale * TruncDiv(SumAxis(accelFIFO, charSigned, 4, n), n)

\* C11 witness: a Stream-mode poll has run all six reads without a failure
\* and has averaged a FIFO that holds samples.
C11_Witness ==
    /\ lastCall.op = "readFullSensorState"
    /\ accelFIFOMode = ACCEL_FIFO_STREAM
    /\ Len(log) = 6
    /\ \A i \in DOMAIN log : log[i].fault = "none"
    /\ log[6].reg = REG_OUT_X_L_A
    /\ accelX # 0

\* the bus transactions of the four setup steps, as (operation, register)
ResetWrites ==
    << << "write", REG_CTRL0 >>, << "write", REG_CTRL1 >>, << "write", REG_CTRL2 >>,
       << "write", REG_CTRL3 >>, << "write", REG_CTRL4 >>, << "write", REG_CTRL5 >>,
       << "write", REG_CTRL6 >>, << "write", REG_CTRL7 >>,
       << "write", REG_FIFO_CTRL >>, << "write", REG_FIFO_SRC >> >>
MagnetometerSetup ==
    << << "read", REG_CTRL5 >>, << "write", REG_CTRL5 >>, << "write", REG_CTRL6 >>,
       << "read", REG_CTRL7 >>, << "write", REG_CTRL7 >> >>
AccelerometerSetup ==
    << << "read", REG_CTRL1 >>, << "write", REG_CTRL1 >>,
       << "read", REG_CTRL2 >>, << "write", REG_CTRL2 >>,
       << "read", REG_CTRL0 >>, << "write", REG_CTRL0 >>,
       << "write", REG_FIFO_CTRL >>, << "read", REG_FIFO_CTRL >>,
       << "read", REG_CTRL1 >>, << "write", REG_CTRL1 >> >>
TempSensorSetup == << << "read", REG_CTRL5 >>, << "write", REG_CTRL5 >> >>
StartupSequence ==
    ResetWrites \o MagnetometerSetup \o AccelerometerSetup \o TempSensorSetup

\* C12: the transactions of a construction are those of reset, then those
\* of enableMagnetometer, then those of enableAccelerometer, then those of
\* enableTempSensor, each complete whatever failed before it, and after them
\* the reads of the first poll, among which there is no write.
C12_StartupOrder ==
    lastCall.op = "LMS303"
    => /\ Len(log) > Len(StartupSequence)
       /\ \A i \in DOMAIN StartupSequence :
              << log[i].op, log[i].reg >> = StartupSequence[i]
       /\ \A i \in DOMAIN log :
              i > Len(StartupSequence) => log[i].op = "read"

\* C12 witness: enableMagnetometer reported a failure (its last write was
\* lost) and the construction still went on to the last read of its poll.
C12_Witness ==
    /\ lastCall.op = "LMS303"
    /\ log[Len(ResetWrites) + Len(MagnetometerSetup)].ret # 0
    /\ Len(log) = Len(StartupSequence) + Len(StreamReads)
    /\ log[Len(log)].reg = REG_OUT_X_L_A
    /\ log[Len(log)].fault = "none"

\* C13: the address byte a read sends, once the bus is open and the device
\* selected, has bit 7 set exactly when more than one byte is requested, and
\* its other seven bits are those of the register address.
C13_BurstBit ==
    \A i \in DOMAIN log :
        (log[i].op = "read" /\ log[i].ret = 0)
        => /\ (log[i].addr \div 128 = 1) <=> (log[i].n > 1)
           /\ log[i].addr % 128 = log[i].reg % 128

\* C13 witness: a one-byte read of the last register of the map went out
\* with the plain address, without the burst bit.
C13_Witness ==
    /\ lastCall.op = "readI2CDevice"
    /\ lastCall.arg = LMS303_I2C_BUFFER - 1
    /\ log[1].n = 1
    /\ log[1].addr = LMS303_I2C_BUFFER - 1

\* the FIFO mode a byte of FIFO_CTRL encodes
ModeOfByte(b) ==
    IF b = 0 THEN ACCEL_FIFO_BYPASS
    ELSE IF b = 64 THEN ACCEL_FIFO_STREAM
    ELSE ACCEL_FIFO_ERROR

\* the mode read back by the last transaction of setAccelFIFOMode: what
\* FIFO_CTRL holds, or Bypass from the zeroed buffer of a read that failed
ReadBack ==
    IF log[Len(log)].fault = "none"
    THEN ModeOfByte(regs[REG_FIFO_CTRL]) ELSE ACCEL_FIFO_BYPASS

\* C14: setAccelFIFOMode returns success exactly when the mode read back
\* from FIFO_CTRL equals the requested mode, and then the cached mode is the
\* requested one.
C14_FifoModeResultFaithful ==
    lastCall.op = "setAccelFIFOMode"
    => /\ (ret = 0) <=> (ReadBack = lastCall.arg)
       /\ ret = 0 => accelFIFOMode = lastCall.arg

\* C15: reset issues exactly ten writes: 0x80 to CTRL0 first, then 0x00 to
\* CTRL1 .. CTRL7, FIFO_CTRL and FIFO_SRC in that order; when it returns
\* every byte of dataBuffer and of accelFIFO is zero.
C15_ResetSequence ==
    lastCall.op = "reset"
    => /\ Len(log) = Len(ResetWrites)
       /\ \A i \in DOMAIN log :
              /\ << log[i].op, log[i].reg >> = ResetWrites[i]
              /\ log[i].n = IF i = 1 THEN 128 ELSE 0
       /\ \A i \in DOMAIN dataBuffer : dataBuffer[i] = 0
       /\ \A i \in DOMAIN accelFIFO : accelFIFO[i] = 0

\* C15 witness: reset has run over a healthy bus on an object that had
\* polled samples (its acceleration is not zero), and CTRL0 holds 0x80.
C15_Witness ==
    /\ lastCall.op = "reset"
    /\ \A i \in DOMAIN log : log[i].ret = 0
    /\ regs[REG_CTRL0] = 128
    /\ accelX # 0

\* C16: a setter whose read of its register succeeded writes that register
\* with the bits outside its field as they were read: setMagDataRate
\* (v & 0x83) | 0x60 | rate * 4 to CTRL5, setAccelDataRate
\* (v & 0x0F) | rate * 16 to CTRL1, setAccelScale (v & 0xC7) | scale * 8 to
\* CTRL2; the last write of enableMagnetometer is v & 0xF8 to CTRL7 and the
\* last write of enableAccelerometer is v | 0x07 to CTRL1, v being what
\* the register holds when it is read.
C16_SettersKeepOtherBits ==
    [][ /\ (lastCall'.op = "setMagDataRate" /\ log'[1].fault = "none")
           => /\ log'[2].op = "write" /\ log'[2].reg = REG_CTRL5
              /\ log'[2].n = BitOr(BitOr(BitAnd(regs[REG_CTRL5], 131), 96),
                                    lastCall'.arg * 4)
              /\ BitAnd(log'[2].n, 131) = BitAnd(regs[REG_CTRL5], 131)
        /\ (lastCall'.op = "setAccelDataRate" /\ log'[1].fault = "none")
           => /\ log'[2].op = "write" /\ log'[2].reg = REG_CTRL1
              /\ log'[2].n = BitOr(BitAnd(regs[REG_CTRL1], 15), lastCall'.arg * 16)
              /\ BitAnd(log'[2].n, 15) = BitAnd(regs[REG_CTRL1], 15)
        /\ ( /\ lastCall'.op = "setAccelScale" /\ log'[1].fault = "none"
             /\ lastCall'.arg \in SCALE_ACCEL_2g .. SCALE_ACCEL_16g )
           => /\ log'[2].op = "write" /\ log'[2].reg = REG_CTRL2
              /\ log'[2].n = BitOr(BitAnd(regs[REG_CTRL2], 199), lastCall'.arg * 8)
              /\ BitAnd(log'[2].n, 199) = BitAnd(regs[REG_CTRL2], 199)
        /\ (lastCall'.op = "enableMagnetometer" /\ log'[4].fault = "none")
           => /\ log'[5].op = "write" /\ log'[5].reg = REG_CTRL7
              /\ log'[5].n = BitAnd(regs[REG_CTRL7], 248)
        /\ (lastCall'.op = "enableAccelerometer" /\ log'[9].fault = "none")
           => /\ log'[10].op = "write" /\ log'[10].reg = REG_CTRL1
              /\ log'[10].n =
                     BitOr(IF log'[2].ret = 0 THEN log'[2].n ELSE regs[REG_CTRL1], 7)
      ]_vars

\* C16 witness: setAccelDataRate(1600 Hz) has rewritten a CTRL1 whose low
\* four bits were all set, and they still are.
C16_Witness ==
    /\ lastCall.op = "setAccelDataRate"
    /\ lastCall.arg = DR_ACCEL_16OOHZ
    /\ log[1].fault = "none" /\ log[2].ret = 0
    /\ regs[REG_CTRL1] = 175

\* the 16-bit two's-complement value of the register pair (high, low) of
\* dataBuffer
PairValue(high, low) == Signed16(dataBuffer[high] * 256 + dataBuffer[low])

\* C17: after a poll that passed the identity check, every magnetic axis is
\* magScale times the 16-bit two's-complement value of (high << 8) | low of
\* its register pair, and so is, with accelScale, every acceleration axis
\* of a poll that is not in Stream mode.
C17_PairConversion ==
    (lastCall.op \in {"LMS303", "readFullSensorState"} /\ ret = 0)
    => /\ magX = magScale * PairValue(REG_OUT_X_H_M, REG_OUT_X_L_M)
       /\ magY = magScale * PairValue(REG_OUT_Y_H_M, REG_OUT_Y_L_M)
       /\ magZ = magScale * PairValue(REG_OUT_Z_H_M, REG_OUT_Z_L_M)
       /\ accelFIFOMode # ACCEL_FIFO_STREAM
          => /\ accelX = accelScale * PairValue(REG_OUT_X_H_A, REG_OUT_X_L_A)
             /\ accelY = accelScale * PairValue(REG_OUT_Y_H_A, REG_OUT_Y_L_A)
             /\ accelZ = accelScale * PairValue(REG_OUT_Z_H_A, REG_OUT_Z_L_A)

\* C18: on a constructed object whose last call met no transport failure,
\* the cached FIFO mode, which the next poll branches on, is the mode that
\* the device's FIFO_CTRL register encodes.
C18_CachedModeMatchesDevice ==
    (constructed /\ \A i \in DOMAIN log : log[i].fault = "none")
    => accelFIFOMode = ModeOfByte(regs[REG_FIFO_CTRL])

\* C19: when a construction that met no transport failure returns, CTRL5
\* holds the temperature enable bit, the high-resolution bits and the 100 Hz
\* rate; CTRL6 the 8 gauss scale; CTRL7 has its three low bits clear; CTRL1
\* holds the 1600 Hz rate and the three axis enable bits; CTRL2 the 8 g
\* scale; FIFO_CTRL is 0x40; the cached mode is Stream and the cached scale
\* factors are those of 8 g and 8 gauss.
C19_StartupConfiguration ==
    (lastCall.op = "LMS303" /\ \A i \in DOMAIN log : log[i].fault = "none")
    => /\ BitAnd(regs[REG_CTRL5], 128) = 128
       /\ BitAnd(regs[REG_CTRL5], 96) = 96
       /\ BitAnd(regs[REG_CTRL5], 28) = DR_MAG_100HZ * 4
       /\ BitAnd(regs[REG_CTRL6], 96) = SCALE_MAG_8gauss * 32
       /\ BitAnd(regs[REG_CTRL7], 7) = 0
       /\ BitAnd(regs[REG_CTRL1], 240) = DR_ACCEL_16OOHZ * 16
       /\ BitAnd(regs[REG_CTRL1], 7) = 7
       /\ BitAnd(regs[REG_CTRL2], 56) = SCALE_ACCEL_8g * 8
       /\ regs[REG_FIFO_CTRL] = 64
       /\ accelFIFOMode = ACCEL_FIFO_STREAM
       /\ accelScale = DocumentedAccel[SCALE_ACCEL_8g + 1]
       /\ magScale = DocumentedMag[SCALE_MAG_8gauss + 1]

\* C19 witness: a construction without a failure has returned and CTRL5
\* and CTRL1 hold 0xF4 and 0xA7.
C19_Witness ==
    /\ lastCall.op = "LMS303"
    /\ Len(log) = Len(StartupSequence) + Len(StreamReads)
    /\ \A i \in DOMAIN log : log[i].fault = "none"
    /\ regs[REG_CTRL5] = 244
    /\ regs[REG_CTRL1] = 167

\* the slot count of a FIFO status byte
SlotsOf(status) == BitAnd(status, 15) + 1

\* C20: readAccelFIFO returns (status & 0x0F) + 1 for the status byte it
\* read, a count in 1 .. 16 in every case; a poll in Stream mode averages
\* over such a count, the one of the status byte of its poll when no read
\* failed; and the last FIFO index of the count, 6 * count - 1, is inside the
\* FIFO buffer.
C20_SlotCountInRange ==
    /\ lastCall.op = "readAccelFIFO"
       => /\ log[1].fault = "none" => ret = SlotsOf(lastCall.arg)
          /\ ret \in 1 .. 16
          /\ 6 * ret - 1 < ACCEL_FIFO_SIZE
    /\ (lastCall.op = "readFullSensorState" /\ accelFIFOMode = ACCEL_FIFO_STREAM)
       => \E n \in 1 .. 16 :
              /\ (\A i \in DOMAIN log : log[i].fault = "none")
                 => n = SlotsOf(dataBuffer[REG_FIFO_SRC])
              /\ 6 * n - 1 < ACCEL_FIFO_SIZE
              /\ accelX = accelScale * TruncDiv(SumAxis(accelFIFO, charSigned, 0, n), n)
              /\ accelY = accelScale * TruncDiv(SumAxis(accelFIFO, charSigned, 2, n), n)
              /\ accelZ = accelScale * TruncDiv(SumAxis(accelFIFO, charSigned, 4, n), n)

\* C20 witness: readAccelFIFO has read a status byte with every bit set and
\* has returned 16.
C20_Witness ==
    /\ lastCall.op = "readAccelFIFO"
    /\ lastCall.arg = 255
    /\ log[1].fault = "none"
    /\ ret = 16

====
